---- MODULE Spec2Model ----
(***************************************************************************)
(* Choices: a form-control enhancer (choices.js).  The model covers the    *)
(* controller (event handlers, addItem/removeItem, the debounced search),  *)
(* the renderer's dirty check, and the store it dispatches to.             *)
(*                                                                         *)
(* Strings are sequences of one-character strings, so that trim(), join()  *)
(* and the search's matching are computed and not assumed.                 *)
(***************************************************************************)
EXTENDS Integers, Sequences, FiniteSets, TLC

\* ------------------------------------------------------------------ bounds
\* Items are never physically removed from the store: caps on the items
\* created, for a select element and for a text element.
MaxItemCount == 2
MaxTextItems == 3
\* Cap on the debounced searches that are scheduled and have not run yet.
MaxTimers == 2
\* Cap on the scroll animations started.
MaxAnimations == 2

\* ----------------------------------------------------------------- strings
sA == <<"a">>
sB == <<"b">>
sAB == <<"a", "b">>
sSpaceA == <<" ", "a">>
sComma == <<",">>
sSemi == <<";">>

RECURSIVE trimLeft(_)
trimLeft(s) == IF s # <<>> /\ Head(s) = " " THEN trimLeft(Tail(s)) ELSE s

RECURSIVE trimRight(_)
trimRight(s) ==
    IF s # <<>> /\ s[Len(s)] = " " THEN trimRight(SubSeq(s, 1, Len(s) - 1)) ELSE s

\* String.prototype.trim
trim(s) == trimRight(trimLeft(s))

\* Array.prototype.join
RECURSIVE join(_, _)
join(values, delimiter) ==
    IF values = <<>> THEN <<>>
    ELSE IF Len(values) = 1 THEN values[1]
    ELSE values[1] \o delimiter \o join(Tail(values), delimiter)

\* needle occurs in hay as a contiguous run
contains(hay, needle) ==
    \E i \in 0..(Len(hay) - Len(needle)) : SubSeq(hay, i + 1, i + Len(needle)) = needle

\* Array.prototype.forEach with the instance threaded through the callback
RECURSIVE forEach(_, _, _)
forEach(Op(_, _), c, s) ==
    IF s = <<>> THEN c ELSE forEach(Op, Op(c, Head(s)), Tail(s))

\* ----------------------------------------------------------------- actions
addItemAction(value, label, id, optionId) ==
    [type |-> "ADD_ITEM", value |-> value, label |-> label, id |-> id, optionId |-> optionId]

removeItemAction(id, optionId) ==
    [type |-> "REMOVE_ITEM", id |-> id, optionId |-> optionId]

selectItemAction(id, selected) ==
    [type |-> "SELECT_ITEM", id |-> id, selected |-> selected]

addOptionAction(value, label, id, groupId, disabled) ==
    [type |-> "ADD_OPTION", value |-> value, label |-> label, id |-> id,
     groupId |-> groupId, disabled |-> disabled]

filterOptionsAction(results) ==
    [type |-> "FILTER_OPTIONS", results |-> results]

activateOptionsAction ==
    [type |-> "ACTIVATE_OPTIONS"]

addGroupAction(value, id, active, disabled) ==
    [type |-> "ADD_GROUP", value |-> value, id |-> id, active |-> active,
     disabled |-> disabled]

\* ---------------------------------------------------------------- reducers
\* Each reducer returns a new collection instance for the actions it handles
\* and the same instance for every other action.
itemsHandles(action) == action.type \in {"ADD_ITEM", "REMOVE_ITEM", "SELECT_ITEM"}

itemsReducer(state, action) ==
    CASE action.type = "ADD_ITEM" ->
            Append(state, [id |-> action.id, optionId |-> action.optionId,
                           value |-> action.value, label |-> action.label,
                           active |-> TRUE, selected |-> FALSE])
      [] action.type = "REMOVE_ITEM" ->
            [i \in 1..Len(state) |->
                IF state[i].id = action.id THEN [state[i] EXCEPT !.active = FALSE]
                ELSE state[i]]
      [] action.type = "SELECT_ITEM" ->
            [i \in 1..Len(state) |->
                IF state[i].id = action.id
                THEN [state[i] EXCEPT !.selected = action.selected]
                ELSE state[i]]
      [] OTHER -> state

optionsHandles(action) ==
    \/ action.type \in {"ADD_OPTION", "FILTER_OPTIONS", "ACTIVATE_OPTIONS"}
    \/ action.type \in {"ADD_ITEM", "REMOVE_ITEM"} /\ action.optionId # -1

\* FILTER_OPTIONS: the options of the ranked result list, in the search's
\* order and active, then every other option, inactive.
filterOptionsReduce(state, results) ==
    LET inResults(o) == \E k \in 1..Len(results) : results[k].item.id = o.id
        notInResults(o) == ~inResults(o)
        byId(id) == CHOOSE o \in {state[i] : i \in 1..Len(state)} : o.id = id
        ranked == [k \in 1..Len(results) |->
                     [byId(results[k].item.id) EXCEPT !.active = TRUE]]
        rest == SelectSeq(state, notInResults)
    IN ranked \o [i \in 1..Len(rest) |-> [rest[i] EXCEPT !.active = FALSE]]

optionsReducer(state, action) ==
    CASE action.type = "ADD_OPTION" ->
            Append(state, [id |-> action.id, groupId |-> action.groupId,
                           value |-> action.value, label |-> action.label,
                           disabled |-> action.disabled, selected |-> FALSE,
                           active |-> TRUE])
      [] action.type = "ADD_ITEM" /\ action.optionId # -1 ->
            [i \in 1..Len(state) |->
                IF state[i].id = action.optionId THEN [state[i] EXCEPT !.selected = TRUE]
                ELSE state[i]]
      [] action.type = "REMOVE_ITEM" /\ action.optionId # -1 ->
            [i \in 1..Len(state) |->
                IF state[i].id = action.optionId THEN [state[i] EXCEPT !.selected = FALSE]
                ELSE state[i]]
      [] action.type = "FILTER_OPTIONS" -> filterOptionsReduce(state, action.results)
      [] action.type = "ACTIVATE_OPTIONS" ->
            [i \in 1..Len(state) |->
                IF ~state[i].disabled THEN [state[i] EXCEPT !.active = TRUE]
                ELSE state[i]]
      [] OTHER -> state

groupsHandles(action) == action.type = "ADD_GROUP"

groupsReducer(state, action) ==
    CASE action.type = "ADD_GROUP" ->
            Append(state, [id |-> action.id, value |-> action.value,
                           active |-> action.active, disabled |-> action.disabled])
      [] OTHER -> state

\* ------------------------------------------------------------------- store
getItems(store) == store.items

getItemsFilteredByActive(store) ==
    LET isActive(item) == item.active = TRUE IN SelectSeq(store.items, isActive)

getItemsReducedToValues(store) ==
    LET items == getItemsFilteredByActive(store)
    IN [i \in 1..Len(items) |-> items[i].value]

getOptions(store) == store.options

getOptionsFilteredByActive(store) ==
    LET isActive(option) == option.active = TRUE IN SelectSeq(store.options, isActive)

getOptionsFiltedBySelectable(store) ==
    LET isSelectable(option) ==
            option.active = TRUE /\ ~option.disabled /\ ~option.selected
    IN SelectSeq(store.options, isSelectable)

getGroupsFilteredByActive(store) ==
    LET isActive(group) == group.active = TRUE IN SelectSeq(store.groups, isActive)

\* The reduction of one action: the new state tree.
reduce(store, action) ==
    [items |-> itemsReducer(store.items, action),
     options |-> optionsReducer(store.options, action),
     groups |-> groupsReducer(store.groups, action)]

\* The renderer compares its snapshot with the store's state by identity and
\* never reads it.  same is what the snapshot shares with the state before a
\* dispatch: the tree itself (state) and each collection.  A dispatch
\* replaces the tree and the collections whose reducer handles the action.
dirtied(same, action) ==
    [state |-> FALSE,
     items |-> same.items /\ ~itemsHandles(action),
     options |-> same.options /\ ~optionsHandles(action),
     groups |-> same.groups /\ ~groupsHandles(action)]

\* -------------------------------------------------------------- the search
\* Fuse.search over label and value, best first: the exact matches, then
\* the partial ones.
fuseSearch(haystack, needle) ==
    LET exact(o) == o.label = needle \/ o.value = needle
        partial(o) == ~exact(o) /\ (contains(o.label, needle) \/ contains(o.value, needle))
        ranked == SelectSeq(haystack, exact) \o SelectSeq(haystack, partial)
    IN [k \in 1..Len(ranked) |->
           [item |-> ranked[k], score |-> IF exact(ranked[k]) THEN 0 ELSE 1]]

\* ------------------------------------------------------------ the instance
\* An instance c of Choices is a record of its fields:
\*   cfg               this.options and this.passedElement.type
\*   store             the store's state tree
\*   prevState         the renderer's snapshot, as what it shares with the
\*                     store's state: prevState.items is TRUE when
\*                     this.prevState.items === this.store.getState().items
\*   passedValue       this.passedElement.value
\*   list              the children of this.list, one per rendered item
\*   dropdown          the option elements of this.dropdown in document
\*                     order, and the notice it shows instead
\*   highlighted       the positions in dropdown.children that carry the
\*                     highlighted class
\*   highlightPosition, isSearching, input (this.input.value)
\*   dropdownActive    this.dropdown carries the active class
\*   timers            the scheduled debounced searches, oldest first
\*   scroll            this.dropdown.scrollTop (top), the animation callbacks
\*                     waiting for the next frame, oldest first (frames),
\*                     those of the frame being rendered that have not run
\*                     yet (running), and the number of animations started
\*                     so far (started)
\*   subscribed        render is subscribed to the store
\*   host              the document the instance was built in and what the
\*                     construction did: the diagnostics it reported, whether
\*                     it threw, whether init was entered, whether the passed
\*                     element was hidden and wrapped, whether the listeners
\*                     are registered
\*   log               what the running handler has done so far: the actions
\*                     dispatched, the regions rebuilt, the callbacks and
\*                     the diagnostics
isSelect(c) == c.cfg.type \in {"select-multiple", "select-one"}

emptyLog == [dispatched |-> <<>>, rebuilt |-> {}, callbacks |-> <<>>, errors |-> <<>>]

\* What the log keeps of a dispatch: the action and the state it produced.
logEntry(action, store) ==
    LET has(f) == f \in DOMAIN action
        ids(s) == [i \in 1..Len(s) |-> s[i].id]
    IN [type |-> action.type,
        id |-> IF has("id") THEN action.id ELSE 0,
        optionId |-> IF has("optionId") THEN action.optionId ELSE 0,
        results |-> IF has("results")
                    THEN [k \in 1..Len(action.results) |-> action.results[k].item.id]
                    ELSE <<>>,
        activeItems |-> ids(getItemsFilteredByActive(store)),
        activeOptions |-> ids(getOptionsFilteredByActive(store)),
        selectable |-> ids(getOptionsFiltedBySelectable(store))]

\* Array.prototype.indexOf, 0-based, -1 when absent
indexOf(s, e) ==
    IF \E i \in 1..Len(s) : s[i] = e
    THEN (CHOOSE i \in 1..Len(s) : s[i] = e /\ \A j \in 1..(i - 1) : s[j] # e) - 1
    ELSE -1

\* querySelectorAll('[data-option-selectable]') on the dropdown
selectableEls(c) ==
    LET isSelectable(i) == ~c.dropdown.children[i].disabled
    IN SelectSeq([i \in 1..Len(c.dropdown.children) |-> i], isSelectable)

\* highlightOption going back to the first option on every rebuild
optionAtPosition_first(options, highlightPosition) == options[1]

\* The option highlightOption picks when no element is passed: the one at
\* the last known position, else the last one, else the first.
optionAtPosition(options, highlightPosition) ==
    IF Len(options) > highlightPosition /\ highlightPosition >= 0
    THEN options[highlightPosition + 1]
    ELSE IF Len(options) > highlightPosition THEN options[1]
    ELSE options[Len(options)]

\* highlightOption leaving the highlighted class on the options that carry it
highlightAmong_noClear(c, options, el) ==
    IF Len(options) = 0 THEN c
    ELSE IF el # 0
         THEN [c EXCEPT !.highlighted = @ \cup {el},
                        !.highlightPosition = indexOf(options, el)]
         ELSE [c EXCEPT !.highlighted =
                            @ \cup {optionAtPosition(options, c.highlightPosition)}]

highlightAmong(c, options, el) ==
    IF Len(options) = 0 THEN c
    ELSE IF el # 0
         THEN [c EXCEPT !.highlighted = {el},
                        !.highlightPosition = indexOf(options, el)]
         ELSE [c EXCEPT !.highlighted = {optionAtPosition(options, c.highlightPosition)}]

\* el is a position in dropdown.children, 0 when no element is passed
highlightOption(c, el) == highlightAmong(c, selectableEls(c), el)

\* the 'option' template
optionEl(option) ==
    [id |-> option.id, value |-> option.value, label |-> option.label,
     disabled |-> option.disabled]

optionEls(options) == [i \in 1..Len(options) |-> optionEl(options[i])]

\* The option elements of the fragment, in document order: the groups that
\* have at least one option, each with all its options.
RECURSIVE renderGroups(_, _)
renderGroups(groups, options) ==
    IF groups = <<>> THEN <<>>
    ELSE LET inGroup(option) == option.groupId = Head(groups).id
         IN optionEls(SelectSeq(options, inGroup)) \o renderGroups(Tail(groups), options)

\* renderOptions appending the selected options too
renderOptions_withSelected(c, options) == optionEls(options)

renderOptions(c, options) ==
    LET shown(option) == c.cfg.type = "select-one" \/ ~option.selected
    IN optionEls(SelectSeq(options, shown))

\* the 'item' template
itemEl(item) ==
    [id |-> item.id, value |-> item.value, label |-> item.label,
     selected |-> item.selected]

\* renderItems joining with a fixed comma
renderItems_commaJoin(c, items) ==
    [c EXCEPT !.passedValue = join(getItemsReducedToValues(c.store), sComma),
              !.list = [i \in 1..Len(items) |-> itemEl(items[i])],
              !.log.rebuilt = @ \cup {"items"}]

renderItems(c, items) ==
    [c EXCEPT !.passedValue = join(getItemsReducedToValues(c.store), c.cfg.delimiter),
              !.list = [i \in 1..Len(items) |-> itemEl(items[i])],
              !.log.rebuilt = @ \cup {"items"}]

\* The fragment render builds for the dropdown.
optionListFragment(c, activeGroups, activeOptions) ==
    IF Len(activeGroups) >= 1 /\ c.isSearching # TRUE
    THEN renderGroups(activeGroups, activeOptions)
    ELSE IF Len(activeOptions) >= 1 THEN renderOptions(c, activeOptions)
    ELSE <<>>

\* The emptied dropdown takes the fragment, or a notice when it is empty.
appendFragment(c, fragment) ==
    IF Len(fragment) > 0
    THEN highlightOption(
             [c EXCEPT !.highlighted = {}, !.log.rebuilt = @ \cup {"options"},
                       !.dropdown = [children |-> fragment, notice |-> ""]], 0)
    ELSE [c EXCEPT !.highlighted = {}, !.log.rebuilt = @ \cup {"options"},
                   !.dropdown =
                       [children |-> <<>>,
                        notice |-> IF c.isSearching THEN "No results found"
                                   ELSE "No options to select"]]

\* The OPTIONS branch of render for a select element.
renderDropdown(c) ==
    appendFragment(c, optionListFragment(c, getGroupsFilteredByActive(c.store),
                                         getOptionsFilteredByActive(c.store)))

\* prevState = currentState: the snapshot is the store's state
snapshot == [state |-> TRUE, items |-> TRUE, options |-> TRUE, groups |-> TRUE]

\* the OPTIONS part of a render pass
renderOptionsRegion(c) ==
    IF (~c.prevState.options \/ ~c.prevState.groups) /\ isSelect(c)
    THEN renderDropdown(c)
    ELSE c

\* the ITEMS part of a render pass
renderItemsRegion(c) ==
    IF ~c.prevState.items
    THEN renderItems(c, getItemsFilteredByActive(c.store))
    ELSE c

\* the ITEMS part handing every item of the store, soft-deleted ones too,
\* to renderItems
renderItemsRegion_allItems(c) ==
    IF ~c.prevState.items THEN renderItems(c, c.store.items) ELSE c

\* the OPTIONS part rebuilding the dropdown on every change of the state tree
renderOptionsRegion_always(c) ==
    IF isSelect(c) THEN renderDropdown(c) ELSE c

\* render that does not keep the state it has rendered as prevState
render_keepSnapshot(c) ==
    IF c.prevState.state THEN c
    ELSE renderItemsRegion(renderOptionsRegion(c))

\* render rebuilding the dropdown whenever the state tree has changed
render_alwaysOptions(c) ==
    IF c.prevState.state THEN c
    ELSE [renderItemsRegion(renderOptionsRegion_always(c)) EXCEPT !.prevState = snapshot]

\* render listing every item of the store
render_allItems(c) ==
    IF c.prevState.state THEN c
    ELSE [renderItemsRegion_allItems(renderOptionsRegion(c)) EXCEPT !.prevState = snapshot]

render(c) ==
    IF c.prevState.state THEN c
    ELSE [renderItemsRegion(renderOptionsRegion(c)) EXCEPT !.prevState = snapshot]

\* The store holds the new state tree; the log records the action.
reduced(c, action, next) ==
    [c EXCEPT !.store = next,
              !.prevState = dirtied(@, action),
              !.log.dispatched = Append(@, logEntry(action, next))]

\* The store notifies its subscriber.
notify(c) == IF c.subscribed THEN render(c) ELSE c

\* store.dispatch: reduce, replace the state tree, notify the subscriber
dispatch(c, action) == notify(reduced(c, action, reduce(c.store, action)))

\* -------------------------------------------------------------- controller
logCallback(c, name, args) == [c EXCEPT !.log.callbacks = Append(@, <<name, args>>)]

logError(c, message) == [c EXCEPT !.log.errors = Append(@, message)]

selectItem(c, item) == dispatch(c, selectItemAction(item.id, TRUE))

deselectItem(c, item) == dispatch(c, selectItemAction(item.id, FALSE))

\* selectAll selecting nothing
selectAll_none(c) == c

selectAll(c) == forEach(selectItem, c, getItems(c.store))

deselectAll(c) == forEach(deselectItem, c, getItems(c.store))

\* The end of removeItem: the early return after the callback's type check
\* keeps the callback from ever being called.
removeItemCallback(c) ==
    IF c.cfg.callbackOnRemoveItem = "none" THEN c
    ELSE IF c.cfg.callbackOnRemoveItem # "function"
         THEN logError(c, "callbackOnRemoveItem: Callback is not a function")
         ELSE c

\* A value that is not an object: kind is "undefined", "String" or "Number".
\* An object is a record of its own fields.
Primitive(kind) == [primitive |-> kind]

isType(type, obj) ==
    IF "primitive" \in DOMAIN obj THEN obj.primitive = type ELSE type = "Object"

\* !item || !isType('Object', item)
noItemObject(item) == ~isType("Object", item)

\* removeItem dispatching the removal without the item's optionId
removeItem_noOption(c, item) ==
    IF noItemObject(item)
    THEN logError(c, "removeItem: No item object was passed to be removed")
    ELSE removeItemCallback(dispatch(c, removeItemAction(item.id, -1)))

\* removeItem going on after the diagnostic; the id and the optionId it
\* reads from a value that is not an object are undefined and match nothing
removeItem_noReturn(c, item) ==
    IF noItemObject(item)
    THEN removeItemCallback(
             dispatch(logError(c, "removeItem: No item object was passed to be removed"),
                      removeItemAction(0, 0)))
    ELSE removeItemCallback(dispatch(c, removeItemAction(item.id, item.optionId)))

\* The callback is the configured callbackOnRemoveItem.
removeItem(c, item) ==
    IF noItemObject(item)
    THEN logError(c, "removeItem: No item object was passed to be removed")
    ELSE removeItemCallback(dispatch(c, removeItemAction(item.id, item.optionId)))

\* A string passed by the page.
String(chars) == [primitive |-> "String", chars |-> chars]

\* !value
falsy(value) ==
    \/ value.primitive \in {"undefined", "null"}
    \/ value.primitive = "String" /\ value.chars = <<>>

\* The return that follows the diagnostic's statement is not part of the
\* if: it is reached for every value, and the items are never looked at.
removeItemsByValue(c, value) ==
    IF falsy(value) \/ ~isType("String", value)
    THEN logError(c, "removeItemsByValue: No value was passed to be removed")
    ELSE c

removeActiveItems(c, excludedId) ==
    LET step(d, item) ==
            IF item.active /\ excludedId # item.id THEN removeItem(d, item) ELSE d
    IN forEach(step, c, getItemsFilteredByActive(c.store))

removeSelectedItems(c) ==
    LET step(d, item) ==
            IF item.selected /\ item.active THEN removeItem(d, item) ELSE d
    IN forEach(step, c, getItemsFilteredByActive(c.store))

\* The end of addItem: the callback.
addItemCallback(c, id, value) ==
    IF c.cfg.callbackOnAddItem = "none" THEN c
    ELSE IF c.cfg.callbackOnAddItem = "function"
         THEN logCallback(c, "callbackOnAddItem", <<id, value>>)
         ELSE logError(c, "callbackOnAddItem: Callback is not a function")

\* addItem leaving the earlier items of a select-one element active
replaceActiveItems_keep(c, id) == c

\* A select-one element keeps only the item just added.
replaceActiveItems(c, id) ==
    IF c.cfg.type = "select-one" THEN removeActiveItems(c, id) ELSE c

\* The action addItem dispatches; label <<>> stands for a missing label,
\* optionId 0 for a missing one.
passedItem(c, value, label, optionId, id) ==
    addItemAction(c.cfg.prependValue \o trim(value) \o c.cfg.appendValue,
                  IF label # <<>> THEN label ELSE trim(value),
                  id,
                  IF optionId # 0 THEN optionId ELSE -1)

\* The body of addItem, for the id it has generated.
addItemWithId(c, value, label, optionId, id) ==
    addItemCallback(
        replaceActiveItems(dispatch(c, passedItem(c, value, label, optionId, id)), id),
        id, value)

\* addItem numbering the items from 0
addItem_zeroBased(c, value, label, optionId) ==
    addItemWithId(c, value, label, optionId, Len(getItems(c.store)))

\* addItem taking the id from the number of active items
addItem_activeCount(c, value, label, optionId) ==
    addItemWithId(c, value, label, optionId, Len(getItemsFilteredByActive(c.store)) + 1)

addItem(c, value, label, optionId) ==
    addItemWithId(c, value, label, optionId, Len(getItems(c.store)) + 1)

clearInput(c) == IF c.input # <<>> THEN [c EXCEPT !.input = <<>>] ELSE c

toggleDropdown(c) ==
    IF ~isSelect(c) THEN c ELSE [c EXCEPT !.dropdownActive = ~@]

\* handleEnter without the limit on the number of items
handleEnter_noMaxItems(c, activeItems, value) ==
    LET canUpdate ==
            IF c.cfg.addItems
            THEN IF c.cfg.allowDuplicates = FALSE /\ c.passedValue # <<>>
                 THEN ~\E i \in 1..Len(activeItems) : activeItems[i].value = value
                 ELSE TRUE
            ELSE FALSE
    IN IF c.cfg.type = "text" /\ canUpdate
       THEN clearInput(addItem(c, value, <<>>, 0))
       ELSE c

handleEnter(c, activeItems, value) ==
    LET canUpdate ==
            IF c.cfg.addItems
            THEN IF c.cfg.maxItems # 0 /\ c.cfg.maxItems <= Len(c.list) THEN FALSE
                 ELSE IF c.cfg.allowDuplicates = FALSE /\ c.passedValue # <<>>
                      THEN ~\E i \in 1..Len(activeItems) : activeItems[i].value = value
                      ELSE TRUE
            ELSE FALSE
    IN IF c.cfg.type = "text" /\ canUpdate
       THEN clearInput(addItem(c, value, <<>>, 0))
       ELSE c

\* lastItem, or none when there is no active item
selectLast(c, activeItems) ==
    IF Len(activeItems) > 0 THEN selectItem(c, activeItems[Len(activeItems)]) ELSE c

editLast(c, lastItem) == removeItem([c EXCEPT !.input = lastItem.value], lastItem)

\* handleBackspace removing the selected items without selecting the last
\* item first
handleBackspace_noSelect(c, activeItems) ==
    IF ~c.cfg.removeItems THEN c
    ELSE IF /\ c.cfg.editItems
            /\ ~\E i \in 1..Len(activeItems) : activeItems[i].selected = TRUE
            /\ Len(activeItems) > 0
         THEN editLast(c, activeItems[Len(activeItems)])
         ELSE removeSelectedItems(c)

handleBackspace(c, activeItems) ==
    IF ~c.cfg.removeItems THEN c
    ELSE IF /\ c.cfg.editItems
            /\ ~\E i \in 1..Len(activeItems) : activeItems[i].selected = TRUE
            /\ Len(activeItems) > 0
         THEN editLast(c, activeItems[Len(activeItems)])
         ELSE removeSelectedItems(selectLast(c, activeItems))

\* The first element of the dropdown that carries the highlighted class.
querySelectorHighlighted(c) ==
    c.dropdown.children[CHOOSE i \in c.highlighted : \A j \in c.highlighted : i <= j]

addHighlighted(c, el) == clearInput(addItem(c, el.value, el.label, el.id))

\* The enter key's second part: the highlighted option of an open dropdown.
enterOnDropdown(c, hasActiveDropdown) ==
    IF hasActiveDropdown /\ c.highlighted # {}
    THEN addHighlighted(c, querySelectorHighlighted(c))
    ELSE c

\* The enter key's first part: the value typed into a text element.
enterOnInput(c, activeItems) ==
    IF c.input # <<>> /\ c.cfg.type = "text"
    THEN handleEnter(c, activeItems, c.input)
    ELSE c

\* ------------------------------------------------------------- scrolling
\* The geometry of the dropdown, in pixels: every option element has the
\* same height, the dropdown shows one option at a time and has no border.
OptionHeight == 2

DropdownHeight == 2

\* option.offsetTop of the element at position el of dropdown.children
offsetTop(el) == (el - 1) * OptionHeight

\* The largest scrollTop the dropdown can take: scrollHeight - clientHeight.
maxScrollTop(c) ==
    IF Len(c.dropdown.children) * OptionHeight > DropdownHeight
    THEN Len(c.dropdown.children) * OptionHeight - DropdownHeight
    ELSE 0

\* An assignment to this.dropdown.scrollTop: the browser keeps the offset
\* within what can be scrolled.
setScrollTop(c, value) ==
    [c EXCEPT !.scroll.top = IF value < 0 THEN 0
                             ELSE IF value > maxScrollTop(c) THEN maxScrollTop(c)
                             ELSE value]

\* requestAnimationFrame with a callback that runs animateScroll
requestAnimationFrame(c, endPoint, direction) ==
    [c EXCEPT !.scroll.frames = Append(@, [endPoint |-> endPoint, direction |-> direction])]

strength == 4

\* distance = easing > 1 ? easing : 1, for easing = difference / strength,
\* in whole pixels
distance(difference) ==
    IF difference > strength THEN difference \div strength ELSE 1

\* The step of one frame.
scrollStep(c, frame) ==
    IF frame.direction > 0
    THEN setScrollTop(c, c.scroll.top + distance(frame.endPoint - c.scroll.top))
    ELSE setScrollTop(c, c.scroll.top - distance(c.scroll.top - frame.endPoint))

\* continueAnimation: the callback asks for another frame.
continueAnimation(c, frame) ==
    IF \/ frame.direction > 0 /\ c.scroll.top < frame.endPoint
       \/ frame.direction <= 0 /\ c.scroll.top > frame.endPoint
    THEN requestAnimationFrame(c, frame.endPoint, frame.direction)
    ELSE c

animateScroll(c, frame) == continueAnimation(scrollStep(c, frame), frame)

\* option: a position in dropdown.children, 0 when no element is passed
scrollToOption(c, option, direction) ==
    IF option = 0 THEN c
    ELSE IF direction > 0
         THEN requestAnimationFrame(
                  [c EXCEPT !.scroll.started = @ + 1],
                  (c.scroll.top + (offsetTop(option) + OptionHeight))
                      - (c.scroll.top + DropdownHeight), 1)
         ELSE requestAnimationFrame([c EXCEPT !.scroll.started = @ + 1],
                                    offsetTop(option), -1)

\* isScrolledIntoView(el, parent, direction): downwards the bottom of the
\* element is within the visible part of the dropdown, upwards its top is.
isScrolledIntoView(c, el, direction) ==
    IF direction > 0
    THEN c.scroll.top + DropdownHeight >= offsetTop(el) + OptionHeight
    ELSE offsetTop(el) >= c.scroll.top

\* getAdjacentEl(startEl, '[data-option-selectable]', direction): the nearest
\* selectable option after (direction 1) or before (direction -1) the
\* element at position startEl, 0 when there is none.
getAdjacentEl(c, startEl, direction) ==
    LET beyond == {i \in 1..Len(c.dropdown.children) :
                      /\ ~c.dropdown.children[i].disabled
                      /\ IF direction > 0 THEN i > startEl ELSE i < startEl}
    IN IF beyond = {} THEN 0
       ELSE IF direction > 0 THEN CHOOSE i \in beyond : \A j \in beyond : i <= j
       ELSE CHOOSE i \in beyond : \A j \in beyond : i >= j

\* The position of the first element that carries the highlighted class, 0
\* when there is none.
currentEl(c) ==
    IF c.highlighted = {} THEN 0
    ELSE CHOOSE i \in c.highlighted : \A j \in c.highlighted : i <= j

\* querySelector('[data-option-selectable]'): the first selectable option
firstSelectable(c) == IF selectableEls(c) = <<>> THEN 0 ELSE selectableEls(c)[1]

\* The option an arrow key goes to.
nextEl(c, directionInt) ==
    IF currentEl(c) # 0 THEN getAdjacentEl(c, currentEl(c), directionInt)
    ELSE firstSelectable(c)

scrollIntoView(c, el, directionInt) ==
    IF ~isScrolledIntoView(c, el, directionInt) THEN scrollToOption(c, el, directionInt)
    ELSE c

\* The up and down keys with the dropdown open.
traverseOptions(c, el, directionInt) ==
    IF el # 0 THEN highlightOption(scrollIntoView(c, el, directionInt), el) ELSE c

arrowKey(c, directionInt) == traverseOptions(c, nextEl(c, directionInt), directionInt)

\* A letter or digit key opens a closed dropdown.
openOnTyping(c, key) ==
    IF key \in {"a", "char"} /\ isSelect(c) /\ ~c.dropdownActive
    THEN toggleDropdown(c) ELSE c

\* The switch on the key code; hasActiveDropdown is read before the
\* dropdown is opened.
onKey(c, key, ctrlDownKey, activeItems, hasActiveDropdown) ==
    CASE key = "a" ->
           IF ctrlDownKey /\ c.cfg.removeItems /\ c.input = <<>> /\ c.cfg.selectAll
           THEN selectAll(c) ELSE c
      [] key = "enter" -> enterOnDropdown(enterOnInput(c, activeItems), hasActiveDropdown)
      [] key = "escape" -> IF hasActiveDropdown THEN toggleDropdown(c) ELSE c
      [] key = "back" -> IF c.input = <<>> THEN handleBackspace(c, activeItems) ELSE c
      [] key = "down" -> IF hasActiveDropdown THEN arrowKey(c, 1) ELSE c
      [] key = "up" -> IF hasActiveDropdown THEN arrowKey(c, -1) ELSE c
      [] OTHER -> c

\* key: "a", "enter", "escape", "back" (backspace or delete), "down", "up" or
\* "char" (any other letter or digit); the event's target is the input,
\* which has focus
onKeyDown(c, key, ctrlDownKey) ==
    onKey(openOnTyping(c, key), key, ctrlDownKey, getItemsFilteredByActive(c.store),
          isSelect(c) /\ c.dropdownActive)

\* handleFilter without the check that the input still has a value
handleFilter_noRecheck(c) ==
    dispatch([c EXCEPT !.isSearching = TRUE],
             filterOptionsAction(fuseSearch(getOptionsFiltedBySelectable(c.store), c.input)))

\* The function debounce() wraps, run when its timer fires.
handleFilter(c) ==
    IF c.input # <<>> /\ Len(c.input) >= 1
    THEN LET haystack == getOptionsFiltedBySelectable(c.store)
             needle == c.input
             results == fuseSearch(haystack, needle)
         IN dispatch([c EXCEPT !.isSearching = TRUE], filterOptionsAction(results))
    ELSE c

\* debounce(fn, 500) builds a new debounced function with a timer of its own
\* on every call; the call that follows starts that timer.  Nothing clears
\* the timers of the debounced functions built by earlier keyups.  A timer
\* is marked superseded when a later keyup schedules another search.
scheduleFilter(timers) ==
    Append([i \in 1..Len(timers) |-> [timers[i] EXCEPT !.superseded = TRUE]],
           [superseded |-> FALSE])

\* onKeyUp leaving search mode without activating the options
onKeyUp_noActivate(c) ==
    IF isSelect(c) /\ c.cfg.allowSearch
    THEN IF c.input # <<>> /\ Len(getOptions(c.store)) > 0
         THEN [c EXCEPT !.timers = scheduleFilter(@)]
         ELSE [c EXCEPT !.isSearching = FALSE]
    ELSE c

onKeyUp(c) ==
    IF isSelect(c) /\ c.cfg.allowSearch
    THEN LET options == getOptions(c.store)
             hasUnactiveOptions == \E i \in 1..Len(options) : options[i].active # TRUE
         IN IF c.input # <<>> /\ Len(options) > 0
            THEN [c EXCEPT !.timers = scheduleFilter(@)]
            ELSE IF hasUnactiveOptions
                 THEN dispatch([c EXCEPT !.isSearching = FALSE], activateOptionsAction)
                 ELSE c
    ELSE c

\* A click opens a closed dropdown.
openOnClick(c) == IF isSelect(c) /\ ~c.dropdownActive THEN toggleDropdown(c) ELSE c

\* A click on an item that deselects no other item
clickItem_noDeselect(c, activeItems, passedId, hasShiftKey) ==
    LET step(d, item) ==
            IF item.id = passedId /\ ~item.selected THEN selectItem(d, item) ELSE d
    IN IF c.cfg.removeItems THEN forEach(step, c, activeItems) ELSE c

\* A click on the item with id passedId.
clickItem(c, activeItems, passedId, hasShiftKey) ==
    LET step(d, item) ==
            IF item.id = passedId /\ ~item.selected
            THEN selectItem(d, item)
            ELSE IF ~hasShiftKey THEN deselectItem(d, item) ELSE d
    IN IF c.cfg.removeItems THEN forEach(step, c, activeItems) ELSE c

closeOnSelectOne(c) == IF c.cfg.type = "select-one" THEN toggleDropdown(c) ELSE c

\* A click on the element of the option found among the active options.
clickOption(c, option) ==
    IF ~option.selected /\ ~option.disabled
    THEN closeOnSelectOne(addItem(c, option.value, option.label, option.id))
    ELSE c

closeDropdown(c) == IF isSelect(c) /\ c.dropdownActive THEN toggleDropdown(c) ELSE c

\* A click outside the container.
clickOutside(c, activeItems) ==
    closeDropdown(IF \E i \in 1..Len(activeItems) : activeItems[i].selected = TRUE
                  THEN deselectAll(c) ELSE c)

findOption(options, id) == CHOOSE o \in {options[i] : i \in 1..Len(options)} : o.id = id

\* target: [kind |-> "item", at |-> position in list]
\*         [kind |-> "option", at |-> position in dropdown.children]
\*         [kind |-> "inside"], any other node of the container
\*         [kind |-> "outside"]
onClick(c, target, hasShiftKey) ==
    CASE target.kind = "item" ->
           clickItem(openOnClick(c), getItemsFilteredByActive(c.store),
                     c.list[target.at].id, hasShiftKey)
      [] target.kind = "option" ->
           clickOption(openOnClick(c),
                       findOption(getOptionsFilteredByActive(c.store),
                                  c.dropdown.children[target.at].id))
      [] target.kind = "outside" ->
           clickOutside(openOnClick(c), getItemsFilteredByActive(c.store))
      [] OTHER -> openOnClick(c)

\* el: a position in dropdown.children, an element with data-option
onMouseOver(c, el) == IF isSelect(c) THEN highlightOption(c, el) ELSE c

\* ------------------------------------------------------------ construction
\* An option selected in the element and not disabled becomes an item.
addSelected(c, option, id, isDisabled) ==
    IF option.selected /\ ~isDisabled
    THEN addItem(c, option.value, option.label, id)
    ELSE c

addOptionWithId(c, option, groupId, id, isDisabled) ==
    addSelected(dispatch(c, addOptionAction(option.value, option.label, id, groupId,
                                           isDisabled)),
                option, id, isDisabled)

\* option: a native OPTION element [value, label, disabled, selected];
\* parentDisabled: its OPTGROUP is disabled
addOption(c, option, groupId, parentDisabled) ==
    addOptionWithId(c, option, groupId, Len(getOptions(c.store)) + 1,
                    option.disabled \/ parentDisabled)

\* group: a native OPTGROUP element [label, disabled, options]
addGroup(c, group, id) ==
    LET step(d, option) == addOption(d, option, id, group.disabled)
    IN forEach(step, dispatch(c, addGroupAction(group.label, id, TRUE, group.disabled)),
               group.options)

\* String.prototype.split for a one-character delimiter
RECURSIVE split(_, _)
split(s, delimiter) ==
    IF \E i \in 1..Len(s) : <<s[i]>> = delimiter
    THEN LET i == CHOOSE k \in 1..Len(s) :
                      <<s[k]>> = delimiter /\ \A j \in 1..(k - 1) : <<s[j]>> # delimiter
         IN <<SubSeq(s, 1, i - 1)>> \o split(SubSeq(s, i + 1, Len(s)), delimiter)
    ELSE <<s>>

addGroups(c, element) ==
    LET groupStep(d, i) == addGroup(d, element.groups[i], i - 1)
    IN forEach(groupStep, c, [i \in 1..Len(element.groups) |-> i])

addOptions(c, element) ==
    LET optionStep(d, option) == addOption(d, option, -1, FALSE)
    IN forEach(optionStep, c, element.options)

addPresetItems(c, element) ==
    LET step(d, value) == addItem(d, value, <<>>, 0)
    IN forEach(step, c, IF element.value # <<>>
                        THEN split(element.value, c.cfg.delimiter) ELSE <<>>)

\* element: the passed element, [value, groups, options]
generateInput(c, element) ==
    IF isSelect(c)
    THEN IF Len(element.groups) > 0
         THEN addGroups([c EXCEPT !.highlightPosition = 0, !.isSearching = FALSE], element)
         ELSE addOptions([c EXCEPT !.highlightPosition = 0, !.isSearching = FALSE], element)
    ELSE addPresetItems(c, element)

\* A TypeError leaves the constructor: a property of null or undefined was
\* read.
throw(c) == [c EXCEPT !.host.thrown = TRUE]

\* console.error during the construction
consoleError(c, message) == [c EXCEPT !.host.errors = Append(@, message)]

\* The callback of init, unless addEventListeners has thrown.
initCallback(c) ==
    IF c.host.thrown THEN c
    ELSE IF c.cfg.callbackOnInit = "function" THEN logCallback(c, "callbackOnInit", <<>>)
    ELSE c

subscribe(c) == [c EXCEPT !.subscribed = TRUE]

\* document.addEventListener is called, and is undefined in a document
\* without it.
addEventListeners(c) ==
    IF c.host.document.addEventListener THEN [c EXCEPT !.host.listening = TRUE]
    ELSE throw(c)

\* generateInput starts by hiding the passed element: classList.add on an
\* element without classList throws before anything is changed.
hidePassedElement(c) ==
    IF c.host.document.classList THEN [c EXCEPT !.host.hidden = TRUE] ELSE throw(c)

generateAndRender(c, element) ==
    IF c.host.thrown THEN c
    ELSE initCallback(addEventListeners(render(subscribe(generateInput(c, element)))))

init(c, element) ==
    generateAndRender(hidePassedElement([c EXCEPT !.host.initRun = TRUE]), element)

\* 'querySelector' in document && 'addEventListener' in document &&
\* 'classList' in document.createElement("div")
cuttingTheMustard(document) ==
    document.querySelector /\ document.addEventListener /\ document.classList

mustardCheck(c) ==
    IF ~cuttingTheMustard(c.host.document)
    THEN consoleError(c, "Choices: Your browser doesn't support Choices")
    ELSE c

inputTypes == {"select-one", "select-multiple", "text"}

\* The input type check; the passed element is there.
inputTypeCheck(c, element) ==
    IF c.cfg.type \in inputTypes THEN init(c, element)
    ELSE consoleError(c, "Choices: Incompatible input passed")

\* The passed element is missing: null, or a selector that matches nothing.
noElement(element) == "primitive" \in DOMAIN element

\* The fields of a new instance.  prevState starts as {}: it shares nothing
\* with the store's state.
newInstance(config, value, document, passed) ==
    [cfg |-> config,
     store |-> [items |-> <<>>, options |-> <<>>, groups |-> <<>>],
     prevState |-> [state |-> FALSE, items |-> FALSE, options |-> FALSE,
                    groups |-> FALSE],
     passedValue |-> value,
     list |-> <<>>,
     dropdown |-> [children |-> <<>>, notice |-> ""],
     highlighted |-> {},
     highlightPosition |-> 0,
     isSearching |-> FALSE,
     dropdownActive |-> FALSE,
     input |-> <<>>,
     timers |-> <<>>,
     scroll |-> [top |-> 0, frames |-> <<>>, running |-> <<>>, started |-> 0],
     subscribed |-> FALSE,
     host |-> [document |-> document, element |-> passed, errors |-> <<>>,
               thrown |-> FALSE, initRun |-> FALSE, hidden |-> FALSE,
               listening |-> FALSE],
     log |-> emptyLog]

\* config.type is the type of the passed element.  With no preset items in
\* the options, the constructor reads this.passedElement.value, which throws
\* when the element is missing.
constructor(config, element, document) ==
    IF noElement(element)
    THEN throw(newInstance(config, <<>>, document, "missing"))
    ELSE inputTypeCheck(mustardCheck(newInstance(config, element.value, document, "present")),
                        element)

\* ---------------------------------------------------- configurations, inputs
defaultOptions ==
    [type |-> "text", delimiter |-> sComma, addItems |-> TRUE, removeItems |-> TRUE,
     editItems |-> FALSE, maxItems |-> 0, allowDuplicates |-> TRUE, allowSearch |-> TRUE,
     selectAll |-> TRUE, prependValue |-> <<>>, appendValue |-> <<>>,
     callbackOnInit |-> "function", callbackOnAddItem |-> "function",
     callbackOnRemoveItem |-> "function"]

\* The configurations the instance is built with: a select-one element, a
\* select-multiple element without search, one without item removal, and
\* text inputs with either delimiter, with and without item editing.
Configs ==
    {[defaultOptions EXCEPT !.type = "select-one"],
     [defaultOptions EXCEPT !.type = "select-multiple", !.allowSearch = FALSE],
     [defaultOptions EXCEPT !.type = "select-multiple", !.removeItems = FALSE]}
    \cup {[defaultOptions EXCEPT !.delimiter = d, !.editItems = e] :
             d \in {sComma, sSemi}, e \in BOOLEAN}

\* Text inputs with a limit on the items, without duplicates (with and
\* without a prepended value), and with callbacks that are not functions.
TextConfigs ==
    {[defaultOptions EXCEPT !.maxItems = 2],
     [defaultOptions EXCEPT !.allowDuplicates = FALSE],
     [defaultOptions EXCEPT !.allowDuplicates = FALSE, !.prependValue = <<"p">>],
     [defaultOptions EXCEPT !.callbackOnAddItem = "string",
                            !.callbackOnRemoveItem = "string"]}

\* A document with every capability the constructor asks for.
Supported == [querySelector |-> TRUE, addEventListener |-> TRUE, classList |-> TRUE]

Documents == [querySelector : BOOLEAN, addEventListener : BOOLEAN, classList : BOOLEAN]

\* A text input and an input of a type the constructor does not take.
ConstructConfigs == {defaultOptions, [defaultOptions EXCEPT !.type = "checkbox"]}

\* An input element with or without a value.
PlainElements == {[value |-> v, groups |-> <<>>, options |-> <<>>] : v \in {<<>>, sA}}

nativeOption(value, disabled, selected) ==
    [value |-> value, label |-> value, disabled |-> disabled, selected |-> selected]

\* The elements an instance is built on.  A select-one element has its first
\* option selected, as a browser shows it.
Elements(config) ==
    IF config.type = "text"
    THEN {[value |-> v, groups |-> <<>>, options |-> <<>>] : v \in {<<>>, sA}}
    ELSE LET first == config.type = "select-one"
             o1 == nativeOption(sAB, FALSE, first)
             o2 == nativeOption(sA, FALSE, FALSE)
             o3 == nativeOption(sB, TRUE, FALSE)
         IN {[value |-> IF first THEN sAB ELSE <<>>, groups |-> <<>>,
              options |-> <<o1, o2, o3>>],
             [value |-> IF first THEN sAB ELSE <<>>,
              groups |-> <<[label |-> <<"g">>, disabled |-> FALSE, options |-> <<o1, o2>>],
                           [label |-> <<"h">>, disabled |-> FALSE, options |-> <<o3>>]>>,
              options |-> <<o1, o2, o3>>]}

\* What the user can have typed into the input.
Inputs(config) ==
    IF config.type = "text" THEN {<<>>, sA, sSpaceA, sB} ELSE {<<>>, sA, sB}

Keys == {"a", "enter", "escape", "back", "char"}

\* -------------------------------------------------------------------- state
VARIABLES cfg, store, prevState, passedValue, list, dropdown, highlighted,
          highlightPosition, isSearching, dropdownActive, input, timers, host,
          scroll

vars == <<cfg, store, prevState, passedValue, list, dropdown, highlighted,
          highlightPosition, isSearching, dropdownActive, input, timers, host,
          scroll>>

\* The instance as the variables hold it, at the start of a handler.
This ==
    [cfg |-> cfg, store |-> store, prevState |-> prevState, passedValue |-> passedValue,
     list |-> list, dropdown |-> dropdown, highlighted |-> highlighted,
     highlightPosition |-> highlightPosition, isSearching |-> isSearching,
     dropdownActive |-> dropdownActive, input |-> input, timers |-> timers,
     scroll |-> scroll, subscribed |-> TRUE, host |-> host, log |-> emptyLog]

\* The variables take the fields of c when the handler returns.
Becomes(c) ==
    /\ cfg' = c.cfg
    /\ store' = c.store
    /\ prevState' = c.prevState
    /\ passedValue' = c.passedValue
    /\ list' = c.list
    /\ dropdown' = c.dropdown
    /\ highlighted' = c.highlighted
    /\ highlightPosition' = c.highlightPosition
    /\ isSearching' = c.isSearching
    /\ dropdownActive' = c.dropdownActive
    /\ input' = c.input
    /\ timers' = c.timers
    /\ host' = c.host
    /\ scroll' = c.scroll

\* The variables hold the fields of the instance c the constructor leaves.
Constructed(c) ==
    /\ cfg = c.cfg
    /\ store = c.store
    /\ prevState = c.prevState
    /\ passedValue = c.passedValue
    /\ list = c.list
    /\ dropdown = c.dropdown
    /\ highlighted = c.highlighted
    /\ highlightPosition = c.highlightPosition
    /\ isSearching = c.isSearching
    /\ dropdownActive = c.dropdownActive
    /\ input = c.input
    /\ timers = c.timers
    /\ host = c.host
    /\ scroll = c.scroll

Init ==
    \E config \in Configs : \E element \in Elements(config) :
        Constructed(constructor(config, element, Supported))

\* ------------------------------------------------------------------ actions
ActiveItems == getItemsFilteredByActive(store)

\* The user edits the text of the input.
TypeInput ==
    \E v \in Inputs(cfg) :
        /\ host.listening
        /\ v # input
        /\ Becomes([This EXCEPT !.input = v])

WithinItemCap(c) ==
    Len(c.store.items) <= IF isSelect(c) THEN MaxItemCount ELSE MaxTextItems

KeyDown ==
    \E key \in Keys :
        LET c == onKeyDown(This, key, key = "a")
        IN /\ host.listening
           /\ WithinItemCap(c)
           /\ Becomes(c)

KeyUp ==
    LET c == onKeyUp(This)
    IN /\ host.listening
       /\ Len(c.timers) <= MaxTimers
       /\ Becomes(c)

\* The oldest timer fires and runs its search.
FilterTimeout ==
    /\ host.listening
    /\ timers # <<>>
    /\ Becomes(handleFilter([This EXCEPT !.timers = Tail(@)]))

ClickItem ==
    \E at \in 1..Len(list) : \E hasShiftKey \in BOOLEAN :
        /\ host.listening
        /\ Becomes(onClick(This, [kind |-> "item", at |-> at], hasShiftKey))

\* The options can be clicked while the dropdown is shown.
ClickOption ==
    \E at \in 1..Len(dropdown.children) :
        LET c == onClick(This, [kind |-> "option", at |-> at], FALSE)
        IN /\ host.listening
           /\ dropdownActive
           /\ WithinItemCap(c)
           /\ Becomes(c)

ClickElsewhere ==
    \E kind \in {"inside", "outside"} :
        /\ host.listening
        /\ Becomes(onClick(This, [kind |-> kind], FALSE))

MouseOver ==
    \E el \in 1..Len(dropdown.children) :
        /\ host.listening
        /\ dropdownActive
        /\ Becomes(onMouseOver(This, el))

\* What the page can pass to removeItem in place of an item.
NonObjects == {Primitive("undefined"), Primitive("String"), Primitive("Number")}

\* The page calls removeItem with a value that is not an object.
RemoveItemCall ==
    \E item \in NonObjects : Becomes(removeItem(This, item))

\* The values the page can pass to removeItemsByValue that are not strings
\* with a character.
NonValues == {Primitive("undefined"), Primitive("null"), Primitive("Number")}

\* The page calls removeItemsByValue with the value of an item, with an empty
\* string or with a value that is not a string.
RemoveItemsByValueCall ==
    \/ \E i \in 1..Len(store.items) :
           Becomes(removeItemsByValue(This, String(store.items[i].value)))
    \/ Becomes(removeItemsByValue(This, String(<<>>)))
    \/ \E value \in NonValues : Becomes(removeItemsByValue(This, value))

\* render() called again, with no dispatch since the last pass, on an
\* instance whose elements have been generated
Render ==
    /\ host.hidden
    /\ Becomes(render(This))

Next ==
    \/ TypeInput
    \/ KeyDown
    \/ KeyUp
    \/ FilterTimeout
    \/ ClickItem
    \/ ClickOption
    \/ ClickElsewhere
    \/ MouseOver
    \/ RemoveItemCall
    \/ Render

Spec == Init /\ [][Next]_vars

\* A text input under one of the text configurations.
InitText ==
    \E config \in TextConfigs : \E element \in Elements(config) :
        Constructed(constructor(config, element, Supported))

\* The events a text input receives.
NextText ==
    \/ TypeInput
    \/ KeyDown
    \/ ClickItem
    \/ ClickElsewhere
    \/ RemoveItemsByValueCall
    \/ Render

SpecText == InitText /\ [][NextText]_vars

\* The constructor called in any document, on a text input, on an input of
\* another type, or on no element.
InitAnywhere ==
    \/ \E document \in Documents : \E config \in ConstructConfigs :
           \E element \in PlainElements :
               Constructed(constructor(config, element, document))
    \/ \E document \in Documents :
           Constructed(constructor(defaultOptions, Primitive("null"), document))

SpecAnywhere == InitAnywhere /\ [][NextText]_vars

\* Text inputs with and without item removal.
ClickConfigs == {defaultOptions, [defaultOptions EXCEPT !.removeItems = FALSE]}

InitClick ==
    \E config \in ClickConfigs : \E element \in Elements(config) :
        Constructed(constructor(config, element, Supported))

SpecClick == InitClick /\ [][NextText]_vars

\* A select-multiple element with search whose options are all enabled and
\* unselected, flat or in one group: a search can match every option.
SearchElements ==
    {[value |-> <<>>, groups |-> <<>>,
      options |-> <<nativeOption(sAB, FALSE, FALSE), nativeOption(sA, FALSE, FALSE)>>],
     [value |-> <<>>,
      groups |-> <<[label |-> <<"g">>, disabled |-> FALSE,
                    options |-> <<nativeOption(sAB, FALSE, FALSE),
                                  nativeOption(sA, FALSE, FALSE)>>]>>,
      options |-> <<nativeOption(sAB, FALSE, FALSE), nativeOption(sA, FALSE, FALSE)>>]}

InitSearch ==
    \E element \in SearchElements :
        Constructed(constructor([defaultOptions EXCEPT !.type = "select-multiple",
                                                       !.removeItems = FALSE],
                                element, Supported))

SpecSearch == InitSearch /\ [][Next]_vars

\* A select-one element whose dropdown the user has scrolled to any offset.
InitScroll ==
    \E element \in Elements([defaultOptions EXCEPT !.type = "select-one"]) :
        \E top \in 0..(Len(element.options) * OptionHeight - DropdownHeight) :
            Constructed(setScrollTop(
                constructor([defaultOptions EXCEPT !.type = "select-one"], element,
                            Supported), top))

\* scrollToOption is called for an option of the dropdown, downwards or
\* upwards, between two frames.
ScrollToOption ==
    \E option \in 1..Len(dropdown.children) : \E direction \in {1, -1} :
        /\ host.listening
        /\ scroll.running = <<>>
        /\ scroll.started < MaxAnimations
        /\ Becomes(scrollToOption(This, option, direction))

\* The browser starts a frame: the callbacks that were waiting are the ones
\* it will run; those they request wait for the next frame.
AnimationFrame ==
    /\ scroll.running = <<>>
    /\ scroll.frames # <<>>
    /\ Becomes([This EXCEPT !.scroll.running = scroll.frames, !.scroll.frames = <<>>])

\* The next callback of the frame runs, in the order of the requests.
AnimationCallback ==
    /\ scroll.running # <<>>
    /\ Becomes(animateScroll([This EXCEPT !.scroll.running = Tail(@)],
                             Head(scroll.running)))

NextScroll ==
    \/ ScrollToOption
    \/ AnimationFrame
    \/ AnimationCallback

\* The browser keeps rendering frames while callbacks are waiting, and runs
\* every callback of a frame.
SpecScroll ==
    /\ InitScroll
    /\ [][NextScroll]_vars
    /\ WF_vars(AnimationFrame)
    /\ WF_vars(AnimationCallback)

\* A select-multiple element with a disabled option between two enabled
\* ones.
HighlightElements ==
    {[value |-> <<>>, groups |-> <<>>,
      options |-> <<nativeOption(sAB, FALSE, FALSE), nativeOption(sB, TRUE, FALSE),
                    nativeOption(sA, FALSE, FALSE)>>]}

InitHighlight ==
    \E element \in HighlightElements :
        Constructed(constructor([defaultOptions EXCEPT !.type = "select-multiple",
                                                       !.removeItems = FALSE],
                                element, Supported))

ArrowKeys == {"down", "up"}

\* An arrow key is pressed between two frames.
ArrowKeyDown ==
    \E key \in ArrowKeys :
        /\ host.listening
        /\ scroll.running = <<>>
        /\ onKeyDown(This, key, FALSE).scroll.started <= MaxAnimations
        /\ Becomes(onKeyDown(This, key, FALSE))

\* The events that move the highlight or rebuild the dropdown (a click on an
\* option takes it out of the list), and the frames of the animations the
\* arrow keys start.
NextHighlight ==
    \/ ClickOption
    \/ ClickElsewhere
    \/ MouseOver
    \/ ArrowKeyDown
    \/ AnimationFrame
    \/ AnimationCallback

SpecHighlight == InitHighlight /\ [][NextHighlight]_vars

\* ------------------------------------------------------------------ claims
\* What the handlers that dispatch would do from the current state, one
\* instance per handler and input.
Outcomes ==
    {onKeyDown(This, key, key = "a") : key \in Keys}
    \cup {onKeyUp(This)}
    \cup {handleFilter([This EXCEPT !.timers = Tail(@)]) :
             t \in IF timers # <<>> THEN {1} ELSE {}}
    \cup {onClick(This, [kind |-> "item", at |-> at], shift) :
             at \in 1..Len(list), shift \in BOOLEAN}
    \cup {onClick(This, [kind |-> "option", at |-> at], FALSE) :
             at \in IF dropdownActive THEN 1..Len(dropdown.children) ELSE {}}
    \cup {onClick(This, [kind |-> kind], FALSE) : kind \in {"inside", "outside"}}

optionById(s, id) == CHOOSE o \in {s.options[i] : i \in 1..Len(s.options)} : o.id = id

idsOf(s) == [i \in 1..Len(s) |-> s[i].id]

\* C1: the control's value is the values of the active items, in insertion
\* order, joined by the configured delimiter.
C1_RoundTrip ==
    passedValue = join([i \in 1..Len(ActiveItems) |-> ActiveItems[i].value], cfg.delimiter)

\* Two active items and a removed one, under the delimiter ";".
C1_Witness ==
    /\ cfg.delimiter = sSemi
    /\ Len(ActiveItems) >= 2
    /\ \E i \in 1..Len(store.items) : ~store.items[i].active
    /\ C1_RoundTrip

\* C2: no soft-deleted item is in the rendered item list, which the
\* max-item check counts, nor among the items a key press hands to the
\* duplicate check; the list holds one element per active item.
C2_NoSoftDeleted ==
    /\ \A i \in 1..Len(list) :
           \A j \in 1..Len(store.items) :
               store.items[j].id = list[i].id => store.items[j].active
    /\ Len(list) = Cardinality({j \in 1..Len(store.items) : store.items[j].active})
    /\ \A i \in 1..Len(ActiveItems) : ActiveItems[i].active

\* A soft-deleted item next to a rendered one.
C2_Witness ==
    /\ Len(list) >= 1
    /\ \E j \in 1..Len(store.items) :
           /\ ~store.items[j].active
           /\ \A i \in 1..Len(list) : list[i].id # store.items[j].id

\* C3: with no removal so far, the items carry the ids 1..N in call order.
C3_IdMonotonicity ==
    (\A i \in 1..Len(store.items) : store.items[i].active)
        => \A i \in 1..Len(store.items) : store.items[i].id = i

\* Two items added, none removed.
C3_Witness ==
    /\ Len(store.items) >= 2
    /\ \A i \in 1..Len(store.items) : store.items[i].active

\* C4: no two items, active or not, share an id, and every id is greater
\* than the ids assigned before it.
C4_IdsNeverReused ==
    \A i, j \in 1..Len(store.items) : i < j => store.items[i].id < store.items[j].id

\* An item added after a removal.
C4_Witness ==
    \E i, j \in 1..Len(store.items) :
        i < j /\ ~store.items[i].active /\ store.items[j].active

\* The option ids of the items a step removes.
RemovedOptionIds ==
    {store.items[i].optionId : i \in {k \in 1..Len(store.items) :
        /\ store.items[k].active
        /\ ~store'.items[k].active
        /\ store.items[k].optionId # -1}}

\* C5 as claimed: after the removal of an item of option K, the option is
\* unselected and selectable, whatever filter is in effect.
C5_SelectableAfterRemoval ==
    [][\A K \in RemovedOptionIds :
           /\ ~optionById(store', K).selected
           /\ K \in {o.id : o \in {getOptionsFiltedBySelectable(store')[i] :
                                      i \in 1..Len(getOptionsFiltedBySelectable(store'))}}]_vars

\* C5 amended: after the removal of an item of option K, the option is
\* unselected; it is selectable exactly when it is active and not disabled.
C5_UnselectedAfterRemoval ==
    [][\A K \in RemovedOptionIds :
           /\ ~optionById(store', K).selected
           /\ (K \in {o.id : o \in {getOptionsFiltedBySelectable(store')[i] :
                                       i \in 1..Len(getOptionsFiltedBySelectable(store'))}})
                  <=> (optionById(store', K).active /\ ~optionById(store', K).disabled)]_vars

\* An item of an option has been removed and the option is unselected.
C5_Witness ==
    \E i \in 1..Len(store.items) :
        /\ ~store.items[i].active
        /\ store.items[i].optionId # -1
        /\ ~optionById(store, store.items[i].optionId).selected

\* C6 as claimed: a search superseded by a later keyup dispatches nothing
\* when its timer fires.
C6_SupersededSearchDiscarded ==
    (timers # <<>> /\ Head(timers).superseded)
        => handleFilter([This EXCEPT !.timers = Tail(@)]).log.dispatched = <<>>

\* C7: a search that runs while the input is empty dispatches nothing and
\* changes nothing; one that runs while it has a value dispatches one
\* filterOptions whose results are the search of the selectable options for
\* that value, and no option that does not match that value is left active.
C7_NoStaleSearch ==
    timers # <<>> =>
        LET c == handleFilter([This EXCEPT !.timers = Tail(@)])
            d == c.log.dispatched
        IN IF input = <<>>
           THEN d = <<>> /\ c.store = store /\ c.isSearching = isSearching
           ELSE /\ Len(d) = 1
                /\ d[1].type = "FILTER_OPTIONS"
                /\ d[1].results =
                       idsOf([k \in 1..Len(fuseSearch(getOptionsFiltedBySelectable(store), input))
                                |-> fuseSearch(getOptionsFiltedBySelectable(store), input)[k].item])
                /\ \A i \in 1..Len(c.store.options) :
                       c.store.options[i].active
                           => \/ contains(c.store.options[i].value, input)
                              \/ contains(c.store.options[i].label, input)

\* A search has run, and another is due while the input was emptied after
\* its keyup.
C7_Witness ==
    timers # <<>> /\ input = <<>> /\ isSearching

\* C8: render invoked with no dispatch since the last pass rebuilds nothing
\* and leaves the dropdown, the item list, the control's value and the
\* highlight as they are.
C8_IdempotentRender ==
    LET c == render(This)
    IN /\ c.log.rebuilt = {}
       /\ c.dropdown = dropdown
       /\ c.highlighted = highlighted
       /\ c.highlightPosition = highlightPosition
       /\ c.list = list
       /\ c.passedValue = passedValue

\* Items and a dropdown have been rendered after a removal.
C8_Witness ==
    /\ Len(list) >= 1
    /\ Len(dropdown.children) >= 1
    /\ \E i \in 1..Len(store.items) : ~store.items[i].active

changesItems(entry) == entry.type \in {"ADD_ITEM", "REMOVE_ITEM", "SELECT_ITEM"}

changesOptions(entry) ==
    \/ entry.type \in {"ADD_OPTION", "ADD_GROUP", "FILTER_OPTIONS", "ACTIVATE_OPTIONS"}
    \/ entry.type \in {"ADD_ITEM", "REMOVE_ITEM"} /\ entry.optionId # -1

\* C9: a handler rebuilds the dropdown only if it dispatched an action on
\* the options or groups, and the item list only if it dispatched one on
\* the items; otherwise the dropdown and the highlight, or the item list and
\* the control's value, are as before.
C9_SelectiveRender ==
    \A c \in Outcomes :
        LET d == c.log.dispatched
            onOptions == \E k \in 1..Len(d) : changesOptions(d[k])
            onItems == \E k \in 1..Len(d) : changesItems(d[k])
        IN /\ "options" \in c.log.rebuilt => onOptions
           /\ "items" \in c.log.rebuilt => onItems
           /\ ~onOptions => c.dropdown = dropdown /\ c.highlighted = highlighted
           /\ ~onItems => c.list = list /\ c.passedValue = passedValue

\* A click selects an item while a dropdown is shown, and a search is due
\* while items are rendered.
C9_Witness ==
    \/ /\ isSelect(This)
       /\ Len(dropdown.children) >= 1
       /\ \E c \in Outcomes :
              /\ c.log.dispatched # <<>>
              /\ \A k \in 1..Len(c.log.dispatched) : c.log.dispatched[k].type = "SELECT_ITEM"
    \/ /\ timers # <<>>
       /\ input # <<>>
       /\ Len(list) >= 1

\* C10: after the filterOptions a search dispatches, the active options are
\* the options of the results, in the results' order; after a keyup on the
\* emptied input, every option that is not disabled is active.
C10_SearchNarrowing ==
    /\ (timers # <<>> /\ input # <<>>) =>
           LET c == handleFilter([This EXCEPT !.timers = Tail(@)])
           IN idsOf(getOptionsFilteredByActive(c.store)) = c.log.dispatched[1].results
    /\ input = <<>> =>
           LET c == onKeyUp(This)
           IN \A i \in 1..Len(c.store.options) :
                  ~c.store.options[i].disabled => c.store.options[i].active

\* A search has narrowed the options and the input is empty again.
C10_Witness ==
    /\ input = <<>>
    /\ isSearching
    /\ \E i \in 1..Len(store.options) :
           ~store.options[i].disabled /\ ~store.options[i].active

\* C11 as claimed: no item is selected while it is soft-deleted.
C11_SelectedOnlyWhileActive ==
    \A i \in 1..Len(store.items) : store.items[i].selected => store.items[i].active

\* C12 as claimed: no step changes the selected field of an item that was
\* soft-deleted before it.
C12_InactiveSelectionFrozen ==
    [][\A i \in 1..Len(store.items) :
           ~store.items[i].active => store'.items[i].selected = store.items[i].selected]_vars

\* C13 as claimed: in a select-multiple element no two active items
\* reference the same option.
C13_OneItemPerOption ==
    cfg.type = "select-multiple" =>
        \A i, j \in 1..Len(ActiveItems) :
            (i # j /\ ActiveItems[i].optionId # -1)
                => ActiveItems[i].optionId # ActiveItems[j].optionId

\* C14: under a limit of M items a text input never holds more than M
\* active items, and Enter adds nothing while it holds M or more.
C14_MaxItemCap ==
    (cfg.type = "text" /\ cfg.maxItems # 0) =>
        /\ Len(ActiveItems) <= cfg.maxItems
        /\ Len(ActiveItems) >= cfg.maxItems =>
               onKeyDown(This, "enter", FALSE).store.items = store.items

\* The limit is reached after a removal and a value is typed.
C14_Witness ==
    /\ cfg.maxItems = 2
    /\ Len(ActiveItems) = 2
    /\ Len(store.items) = 3
    /\ input # <<>>

\* C15 as claimed: without duplicates allowed, no two active items of a text
\* input have the same stored value.
C15_NoDuplicateValues ==
    (cfg.type = "text" /\ ~cfg.allowDuplicates) =>
        \A i, j \in 1..Len(ActiveItems) :
            i # j => ActiveItems[i].value # ActiveItems[j].value

\* C19 as claimed: a handler that reports a callback that is not a function
\* leaves the items collection as it was.
C19_AbortOnBadCallback ==
    \A c \in Outcomes :
        (\E k \in 1..Len(c.log.errors) :
             c.log.errors[k] \in {"callbackOnAddItem: Callback is not a function",
                                  "callbackOnRemoveItem: Callback is not a function"})
            => c.store.items = store.items

ActiveOptions == getOptionsFilteredByActive(store)

ActiveGroups == getGroupsFilteredByActive(store)

\* C16 as claimed: a placeholder is shown only when there is no active
\* option.
C16_PlaceholderOnlyWithoutOptions ==
    (isSelect(This) /\ dropdown.notice # "") => ActiveOptions = <<>>

\* C16 amended: the dropdown of a select element lists, grouped (an active
\* group exists and the widget is not searching), the active options of the
\* active groups, each once; flat otherwise, the active options in order,
\* without the selected ones in a select-multiple.  The placeholder is shown
\* exactly when that list is empty: 'no results' when searching, 'no
\* options' when not.
C16_RenderDecision ==
    isSelect(This) =>
        /\ IF Len(ActiveGroups) >= 1 /\ ~isSearching
           THEN /\ {dropdown.children[i].id : i \in 1..Len(dropdown.children)}
                       = {ActiveOptions[i].id : i \in
                             {k \in 1..Len(ActiveOptions) :
                                 \E g \in 1..Len(ActiveGroups) :
                                     ActiveGroups[g].id = ActiveOptions[k].groupId}}
                /\ \A i, j \in 1..Len(dropdown.children) :
                       i # j => dropdown.children[i].id # dropdown.children[j].id
           ELSE LET shown(o) == cfg.type = "select-one" \/ ~o.selected
                IN idsOf(dropdown.children) = idsOf(SelectSeq(ActiveOptions, shown))
        /\ dropdown.notice =
               IF dropdown.children # <<>> THEN ""
               ELSE IF isSearching THEN "No results found" ELSE "No options to select"

\* The 'no results' placeholder is shown while active options exist: every
\* option the search left active has been selected.
C16_Witness ==
    /\ dropdown.notice = "No results found"
    /\ ActiveOptions # <<>>

Min(a, b) == IF a <= b THEN a ELSE b

\* The instances in which a handler has rebuilt the dropdown with at least
\* one selectable option.
RebuiltWithSelectable ==
    {c \in Outcomes : "options" \in c.log.rebuilt /\ Len(selectableEls(c)) >= 1}

\* C17 as claimed: after a rebuild with n selectable options the one
\* highlighted option is the selectable option at index min(p, n-1).
C17_HighlightClamped ==
    \A c \in RebuiltWithSelectable :
        /\ Min(c.highlightPosition, Len(selectableEls(c)) - 1) >= 0
        /\ c.highlighted =
               {selectableEls(c)[Min(c.highlightPosition, Len(selectableEls(c)) - 1) + 1]}

\* C17 amended: the index is min(p, n-1) for p >= 0, and 0 when p is -1,
\* the position highlightOption records for an option that is not
\* selectable.
C17_HighlightRestored ==
    \A c \in RebuiltWithSelectable :
        c.highlighted =
            {selectableEls(c)[IF c.highlightPosition < 0 THEN 1
                              ELSE Min(c.highlightPosition, Len(selectableEls(c)) - 1) + 1]}

\* A rebuild leaves fewer selectable options than the last known position.
C17_Witness ==
    \E c \in RebuiltWithSelectable : c.highlightPosition >= Len(selectableEls(c))

\* C18: removeItem called with a value that is not an object reports the
\* diagnostic and nothing else: no dispatch, the store as it was, no
\* callback.
C18_RemoveItemRejectsNonObject ==
    \A item \in NonObjects :
        LET c == removeItem(This, item)
        IN /\ c.log.errors = <<"removeItem: No item object was passed to be removed">>
           /\ c.log.dispatched = <<>>
           /\ c.log.callbacks = <<>>
           /\ c.store = store
           /\ c.prevState = prevState
           /\ c.list = list
           /\ c.passedValue = passedValue

\* There are active items and selected options the call could have touched.
C18_Witness ==
    /\ Len(ActiveItems) >= 1
    /\ \E i \in 1..Len(store.options) : store.options[i].selected
    /\ removeItem(This, Primitive("undefined")).log.errors # <<>>

\* C20 as claimed: in a document that lacks a capability, or with a missing
\* or unsupported element, the construction reports a diagnostic and skips
\* the initialisation: init is not entered, nothing is dispatched, no
\* listener is registered and the passed element is left as it was.
C20_InitSkippedWhenIncompatible ==
    (\/ ~cuttingTheMustard(host.document)
     \/ host.element = "missing"
     \/ cfg.type \notin inputTypes)
        => /\ host.errors # <<>>
           /\ ~host.thrown
           /\ ~host.initRun
           /\ store.items = <<>>
           /\ ~host.listening
           /\ ~host.hidden

\* C21 as claimed: every scroll animation stops rescheduling itself; once no
\* further animation is started, no callback is left waiting.
C21_AnimationsTerminate == <>[](scroll.frames = <<>> /\ scroll.running = <<>>)

\* C22 as claimed: removeItemsByValue with the value of an active item
\* soft-deletes the active items of that value and leaves the other items
\* as they are; with an empty string or a value that is not a string it
\* reports the diagnostic and changes nothing.
C22_RemoveItemsByValue ==
    /\ \A i \in 1..Len(ActiveItems) :
           ActiveItems[i].value # <<>> =>
               removeItemsByValue(This, String(ActiveItems[i].value)).store.items =
                   [j \in 1..Len(store.items) |->
                       IF store.items[j].active /\ store.items[j].value = ActiveItems[i].value
                       THEN [store.items[j] EXCEPT !.active = FALSE]
                       ELSE store.items[j]]
    /\ \A value \in NonValues \cup {String(<<>>)} :
           /\ removeItemsByValue(This, value).log.errors =
                  <<"removeItemsByValue: No value was passed to be removed">>
           /\ removeItemsByValue(This, value).store = store

\* The entries of a handler's log for one callback.
callbacksOf(c, name) ==
    LET named(entry) == entry[1] = name IN SelectSeq(c.log.callbacks, named)

dispatchedOf(c, type) ==
    LET typed(entry) == entry.type = type IN SelectSeq(c.log.dispatched, typed)

\* C23 as claimed: with functions configured for both callbacks, a handler
\* calls callbackOnRemoveItem once per removeItem it dispatches, with the
\* removed item's value, and callbackOnAddItem once per addItem, with the
\* new id.
C23_CallbackOnEveryChange ==
    (cfg.callbackOnAddItem = "function" /\ cfg.callbackOnRemoveItem = "function") =>
        \A c \in Outcomes :
            /\ Len(callbacksOf(c, "callbackOnRemoveItem"))
                   = Len(dispatchedOf(c, "REMOVE_ITEM"))
            /\ \A k \in 1..Len(callbacksOf(c, "callbackOnRemoveItem")) :
                   \E i \in 1..Len(c.store.items) :
                       /\ c.store.items[i].id = dispatchedOf(c, "REMOVE_ITEM")[k].id
                       /\ callbacksOf(c, "callbackOnRemoveItem")[k][2]
                              = <<c.store.items[i].value>>
            /\ Len(callbacksOf(c, "callbackOnAddItem")) = Len(dispatchedOf(c, "ADD_ITEM"))
            /\ \A k \in 1..Len(callbacksOf(c, "callbackOnAddItem")) :
                   callbacksOf(c, "callbackOnAddItem")[k][2][1]
                       = dispatchedOf(c, "ADD_ITEM")[k].id

\* C24: in a select-one element at most one item is active, and a step
\* that adds an item leaves that item as the only active one and every
\* option of an item that was active before unselected.
C24_SingleSelectReplacement ==
    /\ [](cfg.type = "select-one" => Len(ActiveItems) <= 1)
    /\ [][(cfg.type = "select-one" /\ Len(store'.items) > Len(store.items)) =>
             /\ getItemsFilteredByActive(store') = <<store'.items[Len(store'.items)]>>
             /\ \A i \in 1..Len(store.items) :
                    store.items[i].active
                        => ~optionById(store', store.items[i].optionId).selected]_vars

\* An item of a select-one element has replaced the one the element was
\* built with.
C24_Witness ==
    /\ cfg.type = "select-one"
    /\ Len(store.items) = 2
    /\ ~store.items[1].active
    /\ store.items[2].active
    /\ ~optionById(store, store.items[1].optionId).selected

\* C25 as claimed: in a select-one element no dispatch of a handler notifies
\* the subscribed render with a state that holds more than one active item.
C25_NoIntermediateNotification ==
    cfg.type = "select-one" =>
        \A c \in Outcomes :
            \A k \in 1..Len(c.log.dispatched) :
                c.subscribed => Len(c.log.dispatched[k].activeItems) <= 1

\* C26 as claimed: no item of the store refers to a disabled option.
C26_NoItemFromDisabledOption ==
    \A i \in 1..Len(store.items) :
        store.items[i].optionId # -1
            => ~optionById(store, store.items[i].optionId).disabled

\* C27 as claimed: a keyup on the empty input of a select element with
\* search leaves the widget out of searching mode, with every option that is
\* not disabled active.
C27_SearchModeFollowsInput ==
    (isSelect(This) /\ cfg.allowSearch /\ input = <<>>) =>
        /\ ~onKeyUp(This).isSearching
        /\ \A i \in 1..Len(onKeyUp(This).store.options) :
               ~onKeyUp(This).store.options[i].disabled
                   => onKeyUp(This).store.options[i].active

\* The options a search would look through if it did not depend on what
\* earlier searches left active: those neither disabled nor selected.
enabledUnselected(s) ==
    LET free(option) == ~option.disabled /\ ~option.selected
    IN SelectSeq(s.options, free)

\* C28 as claimed: the results a search dispatches are determined by the
\* input and by the options with their disabled and selected flags: they are
\* the options among those neither disabled nor selected that match the
\* input, whatever was searched before.
C28_SearchIndependentOfHistory ==
    (timers # <<>> /\ input # <<>>) =>
        {handleFilter([This EXCEPT !.timers = Tail(@)]).log.dispatched[1].results[k] :
            k \in 1..Len(handleFilter([This EXCEPT !.timers = Tail(@)]).log.dispatched[1].results)}
          = {fuseSearch(enabledUnselected(store), input)[k].item.id :
                k \in 1..Len(fuseSearch(enabledUnselected(store), input))}

\* The items after the soft-deletion of those that satisfy gone, which are
\* selected if mark.
softDeleted(gone(_), mark) ==
    [j \in 1..Len(store.items) |->
        IF gone(store.items[j])
        THEN [store.items[j] EXCEPT !.active = FALSE, !.selected = @ \/ mark]
        ELSE store.items[j]]

\* C29: Backspace or Delete on the empty input.  Without removeItems the
\* store is unchanged.  With editItems, no active item selected and an
\* active item, only the last active item is soft-deleted and the input
\* takes its value.  Otherwise the last active item is selected and every
\* selected active item is soft-deleted.
C29_Backspace ==
    input = <<>> =>
        LET c == onKeyDown(This, "back", FALSE)
            isLast(item) == item.active /\ item.id = ActiveItems[Len(ActiveItems)].id
            isLastOrSelected(item) == item.active /\ (item.selected \/ isLast(item))
        IN IF ~cfg.removeItems THEN c.store = store
           ELSE IF ActiveItems = <<>> THEN c.store.items = store.items
           ELSE IF cfg.editItems
                   /\ \A i \in 1..Len(ActiveItems) : ~ActiveItems[i].selected
                THEN /\ c.store.items = softDeleted(isLast, FALSE)
                     /\ c.input = ActiveItems[Len(ActiveItems)].value
                ELSE /\ c.store.items = softDeleted(isLastOrSelected, TRUE)
                     /\ c.input = <<>>

\* Without editItems, an active item that is not the last one is selected:
\* the key press removes it and the last one.
C29_Witness ==
    /\ input = <<>>
    /\ cfg.removeItems
    /\ ~cfg.editItems
    /\ Len(ActiveItems) >= 2
    /\ ActiveItems[1].selected
    /\ ~ActiveItems[Len(ActiveItems)].selected
    /\ getItemsFilteredByActive(onKeyDown(This, "back", FALSE).store)
           = SubSeq(ActiveItems, 2, Len(ActiveItems) - 1)

\* Ctrl+A, then Backspace, on the focused input.
selectAllThenBackspace == onKeyDown(onKeyDown(This, "a", TRUE), "back", FALSE)

\* C30: with removeItems and selectAll, without editItems and with the input
\* empty, Ctrl+A followed by Backspace leaves no active item and an empty
\* value, and unselects the option of every item it removed.
C30_SelectAllThenDelete ==
    (cfg.removeItems /\ cfg.selectAll /\ ~cfg.editItems /\ input = <<>>) =>
        /\ getItemsFilteredByActive(selectAllThenBackspace.store) = <<>>
        /\ selectAllThenBackspace.passedValue = <<>>
        /\ \A i \in 1..Len(ActiveItems) :
               ActiveItems[i].optionId # -1
                   => ~optionById(selectAllThenBackspace.store,
                                  ActiveItems[i].optionId).selected

\* Two items are active, none of them selected, one of them from an option.
C30_Witness ==
    /\ cfg.removeItems /\ cfg.selectAll /\ ~cfg.editItems /\ input = <<>>
    /\ Len(ActiveItems) >= 2
    /\ \A i \in 1..Len(ActiveItems) : ~ActiveItems[i].selected
    /\ ActiveItems[1].optionId # -1
    /\ getItemsFilteredByActive(selectAllThenBackspace.store) = <<>>

\* The item of the store that the element at position at of the list shows.
itemAt(at) ==
    CHOOSE item \in {store.items[j] : j \in 1..Len(store.items)} : item.id = list[at].id

\* C31: without removeItems a click on an item changes no selected flag.
\* With removeItems, a click on an active item that is not selected leaves,
\* without Shift, that item as the only selected active item and, with
\* Shift, that item selected and the selected flag of every other item as
\* it was.
C31_ClickSelection ==
    \A at \in 1..Len(list) : \A hasShiftKey \in BOOLEAN :
        LET c == onClick(This, [kind |-> "item", at |-> at], hasShiftKey)
        IN IF ~cfg.removeItems THEN c.store.items = store.items
           ELSE ~itemAt(at).selected =>
                    \A j \in 1..Len(store.items) :
                        IF store.items[j].id = list[at].id
                        THEN c.store.items[j].selected
                        ELSE IF hasShiftKey
                             THEN c.store.items[j].selected = store.items[j].selected
                             ELSE c.store.items[j].active => ~c.store.items[j].selected

\* With removeItems, an active item is selected and another one is not: a
\* click on the latter, without Shift, deselects the former.
C31_Witness ==
    /\ cfg.removeItems
    /\ \E at, other \in 1..Len(list) :
           /\ ~itemAt(at).selected
           /\ itemAt(other).selected
           /\ LET c == onClick(This, [kind |-> "item", at |-> at], FALSE)
              IN \A j \in 1..Len(c.store.items) :
                     c.store.items[j].active
                         => (c.store.items[j].selected <=> c.store.items[j].id = list[at].id)

\* The selectable option next to the highlighted one in a direction, as a
\* set: empty at the end of the list and when nothing is highlighted.
adjacentSelectable(direction) ==
    {i \in 1..Len(dropdown.children) :
        /\ highlighted # {}
        /\ ~dropdown.children[i].disabled
        /\ \A h \in highlighted : IF direction > 0 THEN i > h ELSE i < h
        /\ \A j \in 1..Len(dropdown.children) :
               (~dropdown.children[j].disabled
                /\ \A h \in highlighted :
                       IF direction > 0 THEN j > h /\ j < i ELSE j < h /\ j > i)
                   => FALSE}

====
